---------------------------- MODULE Spec2Model ----------------------------
(***************************************************************************)
(* Model of auto-editor's timeline core:                                   *)
(*   - auto_editor/timeline.py: clipify, unclipify, make_av, make_layers   *)
(*   - auto_editor/formats/final_cut_pro.py: fraction, fcp_xml's clip loop *)
(*                                                                         *)
(* Times that the code holds in floats or Fractions are exact rationals    *)
(* <<numerator, denominator>> here.  The speeds the model draws (1, 2 and  *)
(* the percentages 50, 100, 200) make every float quotient of the code a   *)
(* dyadic number, so the float arithmetic of the code is exact on them.    *)
(***************************************************************************)
EXTENDS Integers, Sequences, FiniteSets

VARIABLES
    \* fraction() called on two frame counts at one frame rate
    fr_pc, frames1, frames2, fps, enc1, enc2,
    \* one clipify() call
    cy_pc, cy_chunks, cy_src, cy_start, cy_clips,
    \* make_layers()
    ml_pc, speedlists, audios, i, clips, start, recovered, chunks, vclips, aclips,
    \* one unclipify() call
    un_pc, layer, un_result,
    \* fcp_xml()'s loop over the clips
    xml_pc, xml_clips, xml_fps, total_dur, frame_duration, last_dur, spine

fracVars == <<fr_pc, frames1, frames2, fps, enc1, enc2>>
clipifyVars == <<cy_pc, cy_chunks, cy_src, cy_start, cy_clips>>
layerVars == <<ml_pc, speedlists, audios, i, clips, start, recovered, chunks, vclips, aclips>>
unclipVars == <<un_pc, layer, un_result>>
xmlVars == <<xml_pc, xml_clips, xml_fps, total_dur, frame_duration, last_dur, spine>>
vars == <<fracVars, clipifyVars, layerVars, unclipVars, xmlVars>>

----------------------------------------------------------------------------
(* Bounds of the model *)

\* largest frame count handed to fraction()
MaxFrameCount == 8
\* longest per-frame speed array of one source
MaxFrames == 3
\* most sources chained by make_layers
MaxSources == 2
\* largest start cursor (in frames) handed to a single clipify call
MaxCursor == 2
\* most audio tracks of the first input
MaxAudios == 1
\* most clips in a layer handed to unclipify
MaxClips == 2
\* largest start of a clip handed to unclipify
MaxStart == 1
\* largest offset + dur of a clip handed to unclipify
MaxEnd == 3
\* most clips handed to fcp_xml
MaxXmlClips == 3
\* largest end frame of a clip handed to fcp_xml
MaxPos == 3

(* Program constants *)

\* the speed that marks a cut frame
DropSentinel == 99999
\* the denominator fraction() scales to
TargetDen == 3000
\* the fallback of fraction() accumulates Fraction(1, StepDen)
StepDen == 30
\* the clip speed (a percentage) that needs no timeMap
NormalSpeed == 100

\* frame rates: 24 and 30 divide 3000, 48 reduces to the denominators 16 and 48,
\* 3001 gives denominators of 3000 and more
FpsSet == {24, 30, 48, 3001}
\* speeds of kept frames (timeline.py)
Speeds == {1, 2}
\* clip speeds in percent (final_cut_pro.py)
PercentSpeeds == {50, 100, 200}

----------------------------------------------------------------------------
(* Exact rationals <<n, d>>, d > 0, as fractions.Fraction keeps them *)

RECURSIVE GCD(_, _)
GCD(a, b) ==
    IF b = 0 THEN a ELSE GCD(b, a % b)

\* Fraction(n, d): lowest terms, positive denominator
Fraction(n, d) ==
    LET g == GCD(IF n < 0 THEN -n ELSE n, d)
    IN  <<n \div g, d \div g>>

RAdd(a, b) ==
    Fraction(a[1] * b[2] + b[1] * a[2], a[2] * b[2])

RLess(a, b) ==
    a[1] * b[2] < b[1] * a[2]

RLeq(a, b) ==
    a[1] * b[2] <= b[1] * a[2]

REq(a, b) ==
    a[1] * b[2] = b[1] * a[2]

\* a / b for b > 0
RDiv(a, b) ==
    Fraction(a[1] * b[2], a[2] * b[1])

\* Python's round() of a non-negative number: to nearest, a tie to the even integer
round(x) ==
    LET q == x[1] \div x[2]
        r == x[1] % x[2]
    IN  IF 2 * r < x[2] THEN q
        ELSE IF 2 * r > x[2] THEN q + 1
        ELSE IF q % 2 = 0 THEN q ELSE q + 1

----------------------------------------------------------------------------
(* final_cut_pro.py: fraction *)

\* Fraction.limit_denominator(): the fraction itself when the denominator is at
\* most 1000000, which every denominator of the model is
limit_denominator(frac) ==
    frac

\* the loop written  while(total + Fraction(1, 30) < frac) : it stops one step early
RECURSIVE AccumulateShort(_, _)
AccumulateShort(total, frac) ==
    IF RLess(RAdd(total, Fraction(1, StepDen)), frac)
    THEN AccumulateShort(RAdd(total, Fraction(1, StepDen)), frac)
    ELSE total

\* while(total < frac): total += Fraction(1, 30)
RECURSIVE Accumulate(_, _)
Accumulate(total, frac) ==
    IF RLess(total, frac)
    THEN Accumulate(RAdd(total, Fraction(1, StepDen)), frac)
    ELSE total

\* '{}/{}s'.format(num, dem), and the literal '0s'
FormatZero ==
    [text |-> "0s", num |-> 0, den |-> 0]

Format(num, dem) ==
    [text |-> "n/ds", num |-> num, den |-> dem]

\* which branch of fraction() an input takes
Path(inp, rate) ==
    LET frac == limit_denominator(RDiv(inp, <<rate, 1>>))
    IN  IF inp[1] = 0 THEN "zero"
        ELSE IF frac[2] >= TargetDen THEN "asis"
        ELSE IF TargetDen % frac[2] = 0 THEN "exact"
        ELSE "fallback"

\* fraction(inp, fps) for inp a rational number of frames and fps an integer
fraction(inp, rate) ==
    IF inp[1] = 0 THEN FormatZero
    ELSE
        LET frac == limit_denominator(RDiv(inp, <<rate, 1>>))
            num == frac[1]
            dem == frac[2]
        IN  IF dem < TargetDen
            THEN LET factor == TargetDen \div dem
                 IN  IF factor * dem = TargetDen
                     THEN Format(num * factor, dem * factor)
                     ELSE LET total == Accumulate(<<0, 1>>, frac)
                          IN  Format(total[1], total[2])
            ELSE Format(num, dem)

\* the rational a timecode string denotes: '0s' is 0, 'n/ds' is n/d
Decode(s) ==
    IF s.text = "0s" THEN <<0, 1>> ELSE <<s.num, s.den>>

----------------------------------------------------------------------------
(* auto_editor/utils/func.py: chunkify and chunks_len, which timeline.py imports *)

\* per-frame speed arrays of one source: 1 to MaxFrames frames
Arrays ==
    UNION {[1..n -> Speeds \cup {DropSentinel}] : n \in 1..MaxFrames}

\* the maximal runs of equal speed, as (start, end, speed) with end exclusive:
\* consecutive chunks share end = start, the last end is the number of frames
RECURSIVE chunkifyLoop(_, _, _)
chunkifyLoop(arr, start_p, j) ==
    IF j >= Len(arr)
    THEN << <<start_p, Len(arr), arr[Len(arr)]>> >>
    ELSE IF arr[j + 1] # arr[j]
         THEN << <<start_p, j, arr[j]>> >> \o chunkifyLoop(arr, j, j + 1)
         ELSE chunkifyLoop(arr, start_p, j + 1)

chunkify(arr) ==
    chunkifyLoop(arr, 0, 1)

\* the output length of a chunk list: (end - start) / speed summed over the kept chunks
RECURSIVE chunks_len(_)
chunks_len(cs) ==
    IF cs = <<>> THEN <<0, 1>>
    ELSE LET chunk == Head(cs)
             rest == chunks_len(Tail(cs))
         IN  IF chunk[3] # DropSentinel
             THEN RAdd(Fraction(chunk[2] - chunk[1], chunk[3]), rest)
             ELSE rest

----------------------------------------------------------------------------
(* timeline.py: Clip, clipify *)

Clip(c_start, dur, offset, speed, src) ==
    [start |-> c_start, dur |-> dur, offset |-> offset, speed |-> speed, src |-> src]

\* dur of the k-th kept chunk (k counted from 0)
ClipDur(chunk, k) ==
    IF k = 0 THEN chunk[2] - chunk[1] + 1 ELSE chunk[2] - chunk[1]

\* the first chunk's offset used for every chunk
ClipOffsetNoShift(chunk, k) ==
    chunk[1]

\* offset of the k-th kept chunk (k counted from 0)
ClipOffset(chunk, k) ==
    IF k = 0 THEN chunk[1] ELSE chunk[1] + 1

\* the loop of clipify from chunk number n on; k is the code's i, cur its start
RECURSIVE clipifyLoop(_, _, _, _, _, _)
clipifyLoop(cs, n, src, cur, k, acc) ==
    IF n > Len(cs) THEN [clips |-> acc, cursor |-> cur]
    ELSE LET chunk == cs[n]
         IN  IF chunk[3] # DropSentinel
             THEN LET dur == ClipDur(chunk, k)
                      offset == ClipOffset(chunk, k)
                      same == Len(acc) > 0 /\ acc[Len(acc)].start = round(cur)
                      acc2 == IF ~same
                              THEN Append(acc, Clip(round(cur), dur, offset, chunk[3], src))
                              ELSE acc
                  IN  clipifyLoop(cs, n + 1, src, RAdd(cur, Fraction(dur, chunk[3])), k + 1, acc2)
             ELSE clipifyLoop(cs, n + 1, src, cur, k, acc)

\* the clips and the value of the local start when the loop ends
clipifyRun(cs, src, cur) ==
    clipifyLoop(cs, 1, src, cur, 0, <<>>)

\* what clipify returns: the clips alone
clipify(cs, src, cur) ==
    clipifyRun(cs, src, cur).clips

----------------------------------------------------------------------------
(* timeline.py: unclipify *)

Range(f) ==
    {f[x] : x \in DOMAIN f}

\* range(clip.offset, clip.offset + clip.dur) as a list
Frames(clip) ==
    [x \in 1..clip.dur |-> clip.offset + x - 1]

\* the first loop from clip number n on; "raised" when a clip fails a check
RECURSIVE expand(_, _, _)
expand(ly, n, l) ==
    IF n > Len(ly) THEN [raised |-> FALSE, l |-> l]
    ELSE IF ly[n].src # 0 THEN [raised |-> TRUE, l |-> l]
    ELSE IF ly[n].start > Len(l) THEN [raised |-> TRUE, l |-> l]
    ELSE expand(ly, n + 1, l \o Frames(ly[n]))

\* only  len(set(l)) != len(l)  is tested
TooComplexNoSort(l) ==
    Cardinality(Range(l)) # Len(l)

\* len(set(l)) != len(l) or sorted(l) != l
TooComplex(l) ==
    \/ Cardinality(Range(l)) # Len(l)
    \/ \E x \in 1..Len(l) - 1 : l[x] > l[x + 1]

Returned(arr) ==
    [kind |-> "ok", arr |-> arr]

Raised(exc) ==
    [kind |-> exc, arr |-> <<>>]

\* the array: the drop sentinel, then each clip's speed on its range, in list order
Fill(ly) ==
    [x \in 1..(ly[Len(ly)].offset + ly[Len(ly)].dur) |->
        LET on == {n \in 1..Len(ly) :
                     ly[n].offset <= x - 1 /\ x - 1 < ly[n].offset + ly[n].dur}
        IN  IF on = {} THEN DropSentinel
            ELSE ly[CHOOSE n \in on : \A m \in on : m <= n].speed]

unclipify(ly) ==
    LET first == expand(ly, 1, <<>>)
    IN  IF first.raised THEN Raised("ValueError")
        ELSE IF TooComplex(first.l) THEN Raised("ValueError")
        ELSE IF Len(ly) = 0 THEN Raised("IndexError")
        ELSE Returned(Fill(ly))

----------------------------------------------------------------------------
(* timeline.py: make_av *)

VideoObj(clip) ==
    [start |-> clip.start, dur |-> clip.dur, offset |-> clip.offset,
     speed |-> clip.speed, src |-> clip.src]

AudioObj(clip, a) ==
    [start |-> clip.start, dur |-> clip.dur, offset |-> clip.offset,
     speed |-> clip.speed, src |-> clip.src, stream |-> a]

\* one video layer, and one audio layer for each audio track of inp
make_av(cl, n_audios) ==
    [v |-> << [n \in 1..Len(cl) |-> VideoObj(cl[n])] >>,
     a |-> [t \in 1..n_audios |-> [n \in 1..Len(cl) |-> AudioObj(cl[n], t - 1)]]]

----------------------------------------------------------------------------
(* final_cut_pro.py: the loop of fcp_xml over clips, each (start, end, speed%) *)

NoOutput ==
    [text |-> "", num |-> 0, den |-> 0]

\* clip_dur = (clip[1] - clip[0]) / (clip[2] / 100)
clip_dur(clip) ==
    Fraction((clip[2] - clip[1]) * 100, clip[3])

\* the total grows only after a clip that wrote no timeMap
AccumulatePlainOnly(last, clip) ==
    IF clip[3] = NormalSpeed THEN RAdd(last, clip_dur(clip)) ELSE last

\* last_dur += clip_dur
Accumulated(last, clip) ==
    RAdd(last, clip_dur(clip))

\* the <timeMap> of a clip whose speed is not 100: its second timept
TimeMap(clip, rate, total) ==
    IF clip[3] # NormalSpeed
    THEN [written |-> TRUE,
          time |-> fraction(Fraction(total * 100, clip[3]), rate),
          value |-> fraction(<<total, 1>>, rate)]
    ELSE [written |-> FALSE, time |-> NoOutput, value |-> NoOutput]

\* the <asset-clip> element of one clip; an attribute not written is NoOutput
AssetClip(clip, last, rate, total) ==
    LET dur == fraction(clip_dur(clip), rate)
    IN  IF last[1] = 0
        THEN [offset |-> FormatZero, duration |-> dur, start |-> NoOutput,
              closed |-> clip[3] = NormalSpeed, timeMap |-> TimeMap(clip, rate, total)]
        ELSE [offset |-> fraction(last, rate), duration |-> dur,
              start |-> fraction(Fraction(clip[1] * 100, clip[3]), rate),
              closed |-> clip[3] = NormalSpeed, timeMap |-> TimeMap(clip, rate, total)]

----------------------------------------------------------------------------
(* The values of the variables of the calls a specification does not make *)

None ==
    [some |-> FALSE, val |-> <<>>]

Some(x) ==
    [some |-> TRUE, val |-> x]

NotCalled ==
    [kind |-> "", arr |-> <<>>]

IdleFrac ==
    /\ fr_pc = "idle" /\ frames1 = 0 /\ frames2 = 0 /\ fps = 0
    /\ enc1 = NoOutput /\ enc2 = NoOutput

IdleClipify ==
    /\ cy_pc = "idle" /\ cy_chunks = <<>> /\ cy_src = 0 /\ cy_start = <<0, 1>>
    /\ cy_clips = <<>>

IdleLayers ==
    /\ ml_pc = "idle" /\ speedlists = <<>> /\ audios = 0 /\ i = 0 /\ clips = <<>>
    /\ start = <<0, 1>> /\ recovered = NotCalled /\ chunks = None
    /\ vclips = <<>> /\ aclips = <<>>

IdleUnclip ==
    /\ un_pc = "idle" /\ layer = <<>> /\ un_result = NotCalled

IdleXml ==
    /\ xml_pc = "idle" /\ xml_clips = <<>> /\ xml_fps = 0 /\ total_dur = 0
    /\ frame_duration = NoOutput /\ last_dur = <<0, 1>> /\ spine = <<>>

----------------------------------------------------------------------------
(* SpecFrac: fraction(frames1, fps) and fraction(frames2, fps), frames1 < frames2 *)

InitFrac ==
    /\ fr_pc = "ready"
    /\ frames1 \in 0..MaxFrameCount
    /\ frames2 \in 0..MaxFrameCount
    /\ frames1 < frames2
    /\ fps \in FpsSet
    /\ enc1 = NoOutput
    /\ enc2 = NoOutput
    /\ IdleClipify /\ IdleLayers /\ IdleUnclip /\ IdleXml

Encode ==
    /\ fr_pc = "ready"
    /\ enc1' = fraction(<<frames1, 1>>, fps)
    /\ enc2' = fraction(<<frames2, 1>>, fps)
    /\ fr_pc' = "done"
    /\ UNCHANGED <<frames1, frames2, fps, clipifyVars, layerVars, unclipVars, xmlVars>>

NextFrac ==
    Encode

SpecFrac ==
    InitFrac /\ [][NextFrac]_vars

----------------------------------------------------------------------------
(* SpecClipify: one call clipify(chunks, src, start) *)

\* start cursors: the multiples of 1/2 frame up to MaxCursor
Cursors ==
    {Fraction(h, 2) : h \in 0..2 * MaxCursor}

InitClipify ==
    /\ cy_pc = "ready"
    /\ \E arr \in Arrays : cy_chunks = chunkify(arr)
    /\ cy_src \in 0..MaxSources - 1
    /\ cy_start \in Cursors
    /\ cy_clips = <<>>
    /\ IdleFrac /\ IdleLayers /\ IdleUnclip /\ IdleXml

CallClipify ==
    /\ cy_pc = "ready"
    /\ cy_clips' = clipify(cy_chunks, cy_src, cy_start)
    /\ cy_pc' = "done"
    /\ UNCHANGED <<cy_chunks, cy_src, cy_start, fracVars, layerVars, unclipVars, xmlVars>>

NextClipify ==
    CallClipify

SpecClipify ==
    InitClipify /\ [][NextClipify]_vars

----------------------------------------------------------------------------
(* SpecLayers: make_layers(inputs, speedlists) *)

InitLayers ==
    /\ ml_pc = "chain"
    /\ speedlists \in UNION {[1..n -> Arrays] : n \in 1..MaxSources}
    /\ audios \in 0..MaxAudios
    /\ i = 0
    /\ clips = <<>>
    /\ start = <<0, 1>>
    /\ recovered = NotCalled
    /\ chunks = None
    /\ vclips = <<>>
    /\ aclips = <<>>
    /\ IdleFrac /\ IdleClipify /\ IdleUnclip /\ IdleXml

\* one pass of  for i, _chunks in enumerate(...)
ChainSource ==
    /\ ml_pc = "chain"
    /\ i < Len(speedlists)
    /\ LET _chunks == chunkify(speedlists[i + 1])
       IN  /\ clips' = clips \o clipify(_chunks, i, start)
           /\ start' = RAdd(start, chunks_len(_chunks))
    /\ i' = i + 1
    /\ UNCHANGED <<ml_pc, speedlists, audios, recovered, chunks, vclips, aclips,
                   fracVars, clipifyVars, unclipVars, xmlVars>>

\* try: chunks = chunkify(unclipify(clips)) except ValueError: pass
Recover ==
    /\ ml_pc = "chain"
    /\ i = Len(speedlists)
    /\ LET r == unclipify(clips)
       IN  /\ recovered' = r
           /\ chunks' = IF r.kind = "ok" THEN Some(chunkify(r.arr)) ELSE None
           /\ ml_pc' = IF r.kind \in {"ok", "ValueError"} THEN "av" ELSE "raised"
    /\ UNCHANGED <<speedlists, audios, i, clips, start, vclips, aclips,
                   fracVars, clipifyVars, unclipVars, xmlVars>>

\* vclips, aclips = make_av(clips, inputs[0]); return
MakeAv ==
    /\ ml_pc = "av"
    /\ vclips' = make_av(clips, audios).v
    /\ aclips' = make_av(clips, audios).a
    /\ ml_pc' = "done"
    /\ UNCHANGED <<speedlists, audios, i, clips, start, recovered, chunks,
                   fracVars, clipifyVars, unclipVars, xmlVars>>

NextLayers ==
    \/ ChainSource
    \/ Recover
    \/ MakeAv

SpecLayers ==
    InitLayers /\ [][NextLayers]_vars

----------------------------------------------------------------------------
(* SpecUnclip: one call unclipify(layer) *)

\* clips with dur >= 1 (Clip's invariant) inside the first MaxEnd source frames
ClipSet ==
    {c \in {Clip(s, d, o, sp, src) :
               s \in 0..MaxStart, d \in 1..MaxEnd, o \in 0..MaxEnd, sp \in Speeds,
               src \in 0..1} :
        c.offset + c.dur <= MaxEnd}

InitUnclip ==
    /\ un_pc = "ready"
    /\ \E n \in 0..MaxClips : layer \in [1..n -> ClipSet]
    /\ un_result = NotCalled
    /\ IdleFrac /\ IdleClipify /\ IdleLayers /\ IdleXml

CallUnclipify ==
    /\ un_pc = "ready"
    /\ un_result' = unclipify(layer)
    /\ un_pc' = "done"
    /\ UNCHANGED <<layer, fracVars, clipifyVars, layerVars, xmlVars>>

NextUnclip ==
    CallUnclipify

SpecUnclip ==
    InitUnclip /\ [][NextUnclip]_vars

----------------------------------------------------------------------------
(* Properties of fraction, under SpecFrac *)

\* C2: at a fixed frame rate, frames1 < frames2 gives timecodes whose values are
\* strictly increasing, whichever branch of fraction each input takes.
EncoderMonotonic ==
    fr_pc = "done" => RLess(Decode(enc1), Decode(enc2))

\* what C3 says of one input f and its timecode e
BoundedErrorOf(f, e) ==
    LET ideal == <<f, fps>>
        v == Decode(e)
    IN  /\ Path(<<f, 1>>, fps) = "fallback" =>
              /\ e.text = "n/ds"
              /\ (v[1] * StepDen) % v[2] = 0
              /\ RLeq(ideal, v)
              /\ RLess(v, RAdd(ideal, Fraction(1, StepDen)))
        /\ Path(<<f, 1>>, fps) = "exact" =>
              /\ e.den = TargetDen
              /\ REq(v, ideal)

\* C3: on the fallback branch the loop ends and the timecode is the first multiple
\* of 1/30 that reaches the ideal value frames/fps, so 0 <= emitted - ideal < 1/30;
\* on the exact branch the timecode is the ideal value over the denominator 3000.
EncoderBoundedError ==
    fr_pc = "done" => BoundedErrorOf(frames1, enc1) /\ BoundedErrorOf(frames2, enc2)

\* a call pair that took the fallback branch and the exact branch
EncoderBoundedErrorWitness ==
    /\ fr_pc = "done"
    /\ Path(<<frames1, 1>>, fps) = "fallback"
    /\ Path(<<frames2, 1>>, fps) = "exact"
    /\ ~REq(Decode(enc1), <<frames1, fps>>)

----------------------------------------------------------------------------
(* Properties of clipify, under SpecClipify *)

KeptChunks(cs) ==
    {n \in 1..Len(cs) : cs[n][3] # DropSentinel}

Covers(clip, f) ==
    clip.offset <= f /\ f < clip.offset + clip.dur

\* C5: clipify returns one clip for each kept chunk, and every frame of a kept
\* chunk lies in the source range [offset, offset + dur) of a returned clip.
ClipFrameCoverage ==
    cy_pc = "done" =>
        /\ Len(cy_clips) = Cardinality(KeptChunks(cy_chunks))
        /\ \A n \in KeptChunks(cy_chunks) :
              \A f \in cy_chunks[n][1]..cy_chunks[n][2] - 1 :
                  \E k \in 1..Len(cy_clips) : Covers(cy_clips[k], f)

\* C6: the clips of one clipify call have strictly increasing offsets and disjoint
\* source ranges: each offset is at least the previous clip's offset + dur.
ClipNonOverlap ==
    cy_pc = "done" =>
        \A k \in 2..Len(cy_clips) :
            /\ cy_clips[k - 1].offset < cy_clips[k].offset
            /\ cy_clips[k - 1].offset + cy_clips[k - 1].dur <= cy_clips[k].offset

\* a call on a list whose first chunk is dropped, returning adjacent clips
ClipNonOverlapWitness ==
    /\ cy_pc = "done"
    /\ cy_chunks[1][3] = DropSentinel
    /\ Len(cy_clips) >= 2
    /\ cy_clips[1].offset + cy_clips[1].dur = cy_clips[2].offset

----------------------------------------------------------------------------
(* Properties of make_layers, under SpecLayers *)

\* C1: for one source whose array holds no drop sentinel, unclipify of the clips of
\* clipify(chunkify(array), 0, 0) returns the array itself.
RoundTrip ==
    (/\ ml_pc \in {"av", "done", "raised"}
     /\ Len(speedlists) = 1
     /\ \A x \in 1..Len(speedlists[1]) : speedlists[1][x] # DropSentinel)
        => recovered = Returned(speedlists[1])

\* C4: the cursor from which make_layers places the next source is the cursor it
\* gave clipify plus dur / speed summed over the kept chunks, dur as clipify sets it.
CursorConservation ==
    [][(ml_pc = "chain" /\ i' = i + 1) =>
          start' = clipifyRun(chunkify(speedlists[i + 1]), i, start).cursor]_vars

\* C7: in the chained clip list the start values strictly increase from one clip to
\* the next, also from the last clip of a source to the first clip of the next.
ClipStartOrdering ==
    \A k \in 2..Len(clips) : clips[k - 1].start < clips[k].start

\* C8: no error escapes make_layers; when unclipify gives no array the chunk
\* summary is None and the layers are returned all the same.
UnclipifyNonFatal ==
    /\ ml_pc # "raised"
    /\ (ml_pc = "done" /\ recovered.kind # "ok") => chunks = None

----------------------------------------------------------------------------
(* Properties of unclipify, under SpecUnclip *)

RECURSIVE Emitted(_, _)
\* the number of frames the clips before clip n put on the list
Emitted(ly, n) ==
    IF n <= 1 THEN 0 ELSE Emitted(ly, n - 1) + ly[n - 1].dur

SrcAllZero(ly) ==
    \A n \in 1..Len(ly) : ly[n].src = 0

NoNullFrames(ly) ==
    \A n \in 1..Len(ly) : ly[n].start <= Emitted(ly, n)

\* the ranges, in list order, never step back or repeat a frame
Increasing(ly) ==
    \A n \in 1..Len(ly) - 1 : ly[n].offset + ly[n].dur <= ly[n + 1].offset

\* the ranges, in list order, are exactly 0, 1, ..., N - 1
Contiguous(ly) ==
    /\ Len(ly) > 0 => ly[1].offset = 0
    /\ \A n \in 1..Len(ly) - 1 : ly[n].offset + ly[n].dur = ly[n + 1].offset

\* the returned array: its length, and each clip's speed on the clip's range
ArrayOf(ly, arr) ==
    /\ Len(arr) = ly[Len(ly)].offset + ly[Len(ly)].dur
    /\ \A n \in 1..Len(ly) :
          \A f \in ly[n].offset..ly[n].offset + ly[n].dur - 1 : arr[f + 1] = ly[n].speed

\* C9 as stated: unclipify returns only for src = 0 clips placed without null
\* frames whose ranges are exactly 0..N-1, and raises ValueError for any other list.
UnclipifyAcceptsContiguousOnly ==
    un_pc = "done" =>
        /\ un_result.kind = "ok" =>
              /\ SrcAllZero(layer) /\ NoNullFrames(layer) /\ Contiguous(layer)
              /\ ArrayOf(layer, un_result.arr)
        /\ ~(SrcAllZero(layer) /\ NoNullFrames(layer) /\ Contiguous(layer)) =>
              un_result.kind = "ValueError"

\* C9 amended: unclipify returns only for src = 0 clips placed without null frames
\* whose ranges strictly increase (gaps allowed), raises ValueError for any other
\* list, and the array holds the drop sentinel on the frames no clip covers.
UnclipifyAcceptance ==
    un_pc = "done" =>
        /\ un_result.kind = "ok" =>
              /\ SrcAllZero(layer) /\ NoNullFrames(layer) /\ Increasing(layer)
              /\ ArrayOf(layer, un_result.arr)
              /\ \A x \in 1..Len(un_result.arr) :
                    (\A n \in 1..Len(layer) : ~Covers(layer[n], x - 1))
                        => un_result.arr[x] = DropSentinel
        /\ ~(SrcAllZero(layer) /\ NoNullFrames(layer) /\ Increasing(layer)) =>
              un_result.kind = "ValueError"
        /\ (Len(layer) > 0 /\ SrcAllZero(layer) /\ NoNullFrames(layer) /\ Increasing(layer))
              => un_result.kind = "ok"

\* a returned array for two clips of different speeds with a gap between them
UnclipifyAcceptanceWitness ==
    /\ un_pc = "done"
    /\ un_result.kind = "ok"
    /\ Len(layer) = 2
    /\ layer[1].speed # layer[2].speed
    /\ layer[1].offset + layer[1].dur < layer[2].offset

----------------------------------------------------------------------------
(* SpecFcp: fcp_xml(..., clips, ..., total_dur, ..., fps, log) *)

XmlClip ==
    {<<s, e, sp>> : s \in 0..MaxPos, e \in 0..MaxPos, sp \in PercentSpeeds}

\* the kept chunks of one source in order: non-empty, one after the other
XmlClipLists ==
    {cl \in UNION {[1..n -> {c \in XmlClip : c[1] < c[2]}] : n \in 0..MaxXmlClips} :
        \A n \in 1..Len(cl) - 1 : cl[n][2] <= cl[n + 1][1]}

InitFcp ==
    /\ xml_pc = "open"
    /\ xml_clips \in XmlClipLists
    /\ xml_fps \in FpsSet
    /\ total_dur \in 1..MaxPos
    /\ frame_duration = NoOutput
    /\ last_dur = <<0, 1>>
    /\ spine = <<>>
    /\ IdleFrac /\ IdleClipify /\ IdleLayers /\ IdleUnclip

\* the resources, up to <spine>; last_dur = 0
WriteHeader ==
    /\ xml_pc = "open"
    /\ frame_duration' = fraction(<<1, 1>>, xml_fps)
    /\ last_dur' = <<0, 1>>
    /\ xml_pc' = "spine"
    /\ UNCHANGED <<xml_clips, xml_fps, total_dur, spine,
                   fracVars, clipifyVars, layerVars, unclipVars>>

\* one pass of  for _, clip in enumerate(clips)
WriteClip ==
    /\ xml_pc = "spine"
    /\ Len(spine) < Len(xml_clips)
    /\ LET clip == xml_clips[Len(spine) + 1]
       IN  /\ spine' = Append(spine, AssetClip(clip, last_dur, xml_fps, total_dur))
           /\ last_dur' = Accumulated(last_dur, clip)
    /\ UNCHANGED <<xml_pc, xml_clips, xml_fps, total_dur, frame_duration,
                   fracVars, clipifyVars, layerVars, unclipVars>>

\* </spine> and the closing tags
CloseSpine ==
    /\ xml_pc = "spine"
    /\ Len(spine) = Len(xml_clips)
    /\ xml_pc' = "done"
    /\ UNCHANGED <<xml_clips, xml_fps, total_dur, frame_duration, last_dur, spine,
                   fracVars, clipifyVars, layerVars, unclipVars>>

NextFcp ==
    \/ WriteHeader
    \/ WriteClip
    \/ CloseSpine

SpecFcp ==
    InitFcp /\ [][NextFcp]_vars

----------------------------------------------------------------------------
(* Properties of fcp_xml, under SpecFcp *)

RECURSIVE DurBefore(_, _)
\* (end - start) / (speed / 100) summed over the clips before clip n
DurBefore(cl, n) ==
    IF n <= 1 THEN <<0, 1>>
    ELSE RAdd(DurBefore(cl, n - 1),
              Fraction((cl[n - 1][2] - cl[n - 1][1]) * 100, cl[n - 1][3]))

\* C10: the first asset-clip has offset "0s" and no start; every later one has
\* offset = fraction(duration of the clips before it, fps) and start =
\* fraction(clip start / (speed / 100), fps); the total grows by every clip's
\* duration, timeMap or not.
ExporterClipAttributes ==
    /\ \A n \in 1..Len(spine) :
          IF n = 1
          THEN spine[n].offset = FormatZero /\ spine[n].start = NoOutput
          ELSE /\ spine[n].offset = fraction(DurBefore(xml_clips, n), xml_fps)
               /\ spine[n].start # NoOutput
               /\ spine[n].start =
                      fraction(Fraction(xml_clips[n][1] * 100, xml_clips[n][3]), xml_fps)
    /\ xml_pc \in {"spine", "done"} => last_dur = DurBefore(xml_clips, Len(spine) + 1)

\* a finished export of three clips, the first two with a timeMap
ExporterClipAttributesWitness ==
    /\ xml_pc = "done"
    /\ Len(spine) = 3
    /\ spine[1].timeMap.written
    /\ spine[2].timeMap.written
    /\ spine[3].start # NoOutput
    /\ spine[3].offset.text = "n/ds"

============================================================================
